---- MODULE Spec2Model ----
(***************************************************************************)
(* Collocation extraction over annotated corpora: the six scripts          *)
(* analyze_treebank, analyze_cicero, analyze_latin, analyze_collocations,  *)
(* analyze_cicero_stanza and analyze_entropy.                              *)
(*                                                                         *)
(* Strings are TLA+ strings; a character is a string of length 1.  Python  *)
(* lists are sequences (Python index p is TLA+ index p + 1), and a         *)
(* collections.Counter is an association list in insertion order, as a     *)
(* Python dict iterates.                                                   *)
(***************************************************************************)
EXTENDS Integers, Sequences, FiniteSets, TLC

(***************************************************************************)
(* Bounds of the model.                                                    *)
(***************************************************************************)
\* most lemmas admitted in one run (over all files)
MaxLen == 5
\* most files analyze_cicero_stanza processes in one run
MaxFiles == 2

(***************************************************************************)
(* Strings.                                                                *)
(***************************************************************************)
\* the characters the model's inputs use, in code point order
CharOrder == " #,.0123456789:=ABCDEFGHIJKLMNOPQRSTUVWXYZ_abcdefghijklmnopqrstuvwxyz"
UpperChars == "ABCDEFGHIJKLMNOPQRSTUVWXYZ"
LowerChars == "abcdefghijklmnopqrstuvwxyz"

CharAt(s, p) == SubSeq(s, p, p)

\* position of character c in string t, 0 when absent
IndexIn(c, t) ==
    IF \E p \in 1..Len(t) : CharAt(t, p) = c
    THEN CHOOSE p \in 1..Len(t) : CharAt(t, p) = c
    ELSE 0

\* the rank of every character of CharOrder
OrdTable ==
    [c \in {CharAt(CharOrder, p) : p \in 1..Len(CharOrder)} |->
        IndexIn(c, CharOrder)]

\* ord(c), up to an increasing map
Ord(c) == OrdTable[c]

\* str.lower() on one character
LowerChar(c) ==
    IF IndexIn(c, UpperChars) > 0
    THEN CharAt(LowerChars, IndexIn(c, UpperChars))
    ELSE c

RECURSIVE Lower(_)
\* str.lower()
Lower(s) ==
    IF Len(s) = 0 THEN ""
    ELSE LowerChar(CharAt(s, 1)) \o Lower(SubSeq(s, 2, Len(s)))

RECURSIVE StripNonAlpha(_)
\* re.sub(r'[^a-z]+', '', s)
StripNonAlpha(s) ==
    IF Len(s) = 0 THEN ""
    ELSE (IF IndexIn(CharAt(s, 1), LowerChars) > 0 THEN CharAt(s, 1) ELSE "")
         \o StripNonAlpha(SubSeq(s, 2, Len(s)))

\* Python's  m in s  on strings
Contains(s, m) ==
    \E p \in 1..(Len(s) - Len(m) + 1) : SubSeq(s, p, p + Len(m) - 1) = m

RECURSIVE StrLess(_, _)
\* Python's  a < b  on strings: lexicographic by code point
StrLess(a, b) ==
    IF Len(b) = 0 THEN FALSE
    ELSE IF Len(a) = 0 THEN TRUE
    ELSE IF CharAt(a, 1) # CharAt(b, 1) THEN Ord(CharAt(a, 1)) < Ord(CharAt(b, 1))
    ELSE StrLess(SubSeq(a, 2, Len(a)), SubSeq(b, 2, Len(b)))

RECURSIVE Join(_)
\* " ".join(lines)
Join(lines) ==
    IF Len(lines) = 0 THEN ""
    ELSE IF Len(lines) = 1 THEN lines[1]
    ELSE lines[1] \o " " \o Join(Tail(lines))

Min(a, b) == IF a < b THEN a ELSE b

(***************************************************************************)
(* collections.Counter: a sequence of [key, count] in insertion order.     *)
(***************************************************************************)
Keys(t) == {t[p].key : p \in 1..Len(t)}

\* t[k], which is 0 for a key the counter does not hold
Get(t, k) ==
    IF k \in Keys(t)
    THEN t[CHOOSE p \in 1..Len(t) : t[p].key = k].count
    ELSE 0

\* mutant of Incr: the entry is set to 1 instead of incremented
IncrAssignOne(t, k) ==
    IF k \in Keys(t)
    THEN [p \in 1..Len(t) |->
            IF t[p].key = k THEN [key |-> k, count |-> 1] ELSE t[p]]
    ELSE Append(t, [key |-> k, count |-> 1])

\* t[k] += 1
Incr(t, k) ==
    IF k \in Keys(t)
    THEN [p \in 1..Len(t) |->
            IF t[p].key = k THEN [key |-> k, count |-> t[p].count + 1] ELSE t[p]]
    ELSE Append(t, [key |-> k, count |-> 1])

RECURSIVE CounterOfAllButLast(_)
\* mutant of CounterOf: the last element of the list is not counted
CounterOfAllButLast(list) ==
    IF Len(list) <= 1 THEN <<>>
    ELSE Incr(CounterOfAllButLast(SubSeq(list, 1, Len(list) - 1)),
              list[Len(list) - 1])

RECURSIVE CounterOf(_)
\* collections.Counter(list)
CounterOf(list) ==
    IF Len(list) = 0 THEN <<>>
    ELSE Incr(CounterOf(SubSeq(list, 1, Len(list) - 1)), list[Len(list)])

RECURSIVE SumCounts(_)
\* sum(t.values())
SumCounts(t) == IF Len(t) = 0 THEN 0 ELSE t[1].count + SumCounts(Tail(t))

(***************************************************************************)
(* The scripts and their configuration.                                    *)
(***************************************************************************)
OrderPreserving == {"treebank", "cicero", "latin", "collocations"}
Scripts == OrderPreserving \cup {"stanza"}

\* window_size as each script sets it
WindowSize == 5
\* the window sizes of the model: the scripts' own, and smaller ones that a
\* short stream exceeds
WindowSizes == {2, 3, WindowSize}

\* min_occurrence as each script sets it
MinOccurrenceOf(s) ==
    CASE s = "treebank" -> 5
      [] s = "cicero" -> 3
      [] s = "latin" -> 10
      [] s = "collocations" -> 3
      [] s = "stanza" -> 5
\* the thresholds of the model: the script's own, and a smaller one
MinOccurrences(s) == {2, MinOccurrenceOf(s)}

STOP_POS(s) ==
    CASE s \in {"treebank", "cicero", "stanza"} ->
            {"PUNCT", "SYM", "NUM", "X", "PRON", "AUX", "ADP", "SCONJ", "PART",
             "DET", "CCONJ"}
      [] s \in {"latin", "entropy"} -> {"PUNCT", "SYM", "NUM", "X"}
      [] s = "collocations" ->
            {"DET", "CCONJ", "SCONJ", "PART", "PRON", "PUNCT", "SYM", "NUM"}

BLACKLIST(s) ==
    CASE s \in {"treebank", "cicero"} ->
            {"calendar", "expression", "monetary", "kal.", "non.", "id."}
      [] s = "stanza" ->
            {"calendar", "expression", "monetary", "kal.", "non.", "id.",
             "c.", "cn.", "m.", "l."}
      [] OTHER -> {}

\* mutant of Admitted: the blacklist is tested on the lemma as annotated,
\* before it is lower-cased
AdmittedBlacklistRaw(s, upos, lemma) ==
    CASE s \in {"treebank", "cicero", "stanza"} ->
            IF upos \notin STOP_POS(s) /\ lemma # ""
               /\ lemma \notin BLACKLIST(s)
               /\ Len(Lower(lemma)) > 1 /\ Lower(lemma) # "_"
            THEN <<Lower(lemma)>> ELSE <<>>
      [] s = "latin" ->
            IF upos \notin STOP_POS(s) /\ lemma # ""
               /\ Len(StripNonAlpha(Lower(lemma))) > 1
            THEN <<StripNonAlpha(Lower(lemma))>> ELSE <<>>
      [] s = "collocations" ->
            IF upos \notin STOP_POS(s) /\ lemma # ""
            THEN <<lemma>> ELSE <<>>
      [] s = "entropy" ->
            IF upos \notin STOP_POS(s) /\ Lower(lemma) # "_"
            THEN <<Lower(lemma)>> ELSE <<>>

\* the stream element a token contributes: <<lemma>> when the token is
\* admitted, <<>> when it is rejected
Admitted(s, upos, lemma) ==
    CASE s \in {"treebank", "cicero"} ->
            IF upos \notin STOP_POS(s) /\ lemma # ""
               /\ Lower(lemma) \notin BLACKLIST(s)
               /\ Len(Lower(lemma)) > 1 /\ Lower(lemma) # "_"
            THEN <<Lower(lemma)>> ELSE <<>>
      [] s = "stanza" ->
            IF lemma # "" /\ upos \notin STOP_POS(s)
               /\ Lower(lemma) \notin BLACKLIST(s)
               /\ Len(Lower(lemma)) > 1 /\ Lower(lemma) # "_"
            THEN <<Lower(lemma)>> ELSE <<>>
      [] s = "latin" ->
            IF upos \notin STOP_POS(s) /\ lemma # ""
               /\ Len(StripNonAlpha(Lower(lemma))) > 1
            THEN <<StripNonAlpha(Lower(lemma))>> ELSE <<>>
      [] s = "collocations" ->
            IF upos \notin STOP_POS(s) /\ lemma # ""
            THEN <<lemma>> ELSE <<>>
      [] s = "entropy" ->
            IF upos \notin STOP_POS(s) /\ Lower(lemma) # "_"
            THEN <<Lower(lemma)>> ELSE <<>>

\* tokens every corpus holds: three content words, a punctuation mark and a
\* token without lemma
CommonTokens ==
    { [upos |-> "NOUN", lemma |-> "rex"],
      [upos |-> "VERB", lemma |-> "amat"],
      [upos |-> "NOUN", lemma |-> "regina"],
      [upos |-> "PUNCT", lemma |-> ","],
      [upos |-> "NOUN", lemma |-> ""] }

\* the annotated tokens the annotation layer hands to script s.  The tokens
\* beyond the common ones are those the script's filter rejects or maps to
\* one of the three content lemmas, so that every stream is over the same
\* three lemmas.
Tokens(s) ==
    CASE s \in {"treebank", "cicero", "stanza"} ->
            CommonTokens \cup
            { [upos |-> "NOUN", lemma |-> "Rex"],
              [upos |-> "PRON", lemma |-> "rex"],
              [upos |-> "NOUN", lemma |-> "_"],
              [upos |-> "NOUN", lemma |-> "Kal."],
              [upos |-> "NOUN", lemma |-> "a"] }
      [] s = "latin" ->
            CommonTokens \cup
            { [upos |-> "NOUN", lemma |-> "Rex."],
              [upos |-> "PRON", lemma |-> "rex"],
              [upos |-> "NOUN", lemma |-> "_"],
              [upos |-> "NOUN", lemma |-> "a"] }
      [] s = "collocations" ->
            CommonTokens \cup { [upos |-> "PRON", lemma |-> "rex"] }

(***************************************************************************)
(* The pair key and the window.                                            *)
(***************************************************************************)
\* mutant of SortedPair: the pair is not sorted
SortedPairUnsorted(w1, w2) == <<w1, w2>>

\* tuple(sorted((w1, w2)))
SortedPair(w1, w2) == IF StrLess(w2, w1) THEN <<w2, w1>> ELSE <<w1, w2>>

\* the key under which the pair (current_word, next_word) is counted
PairKey(s, w1, w2) == IF s = "stanza" THEN SortedPair(w1, w2) ELSE <<w1, w2>>

\* mutant of EndWindow: every script looks one position further
EndWindowInclusive(s, i, n, w) == Min(i + w + 1, n)

\* end_window for Python position i of a stream of n lemmas
EndWindow(s, i, n, w) ==
    IF s = "stanza" THEN Min(i + w + 1, n) ELSE Min(i + w, n)

\* mutant of TrigramDistinct: only adjacent lemmas are compared
TrigramDistinctAdjacent(w1, w2, w3) == w1 # w2 /\ w2 # w3

\* whether the three adjacent lemmas are recorded as a trigram
TrigramDistinct(w1, w2, w3) == w1 # w2 /\ w2 # w3 /\ w1 # w3

\* mutant of SkipPair: no pair is skipped
SkipPairNever(w1, w2) == FALSE

\* the test that skips a pair:  if current_word == next_word: continue
SkipPair(w1, w2) == w1 = w2

\* mutant of CountPair: the running total is not incremented
CountPairNoTotal(s, acc, stream, i, j) ==
    IF stream[i + 1] = stream[j + 1]
    THEN acc
    ELSE [pairs |-> Incr(acc.pairs, PairKey(s, stream[i + 1], stream[j + 1])),
          total |-> acc.total]

\* one pass of the inner loop body at Python positions i < j: acc holds the
\* pair table and the running total
CountPair(s, acc, stream, i, j) ==
    IF SkipPair(stream[i + 1], stream[j + 1])
    THEN acc
    ELSE [pairs |-> Incr(acc.pairs, PairKey(s, stream[i + 1], stream[j + 1])),
          total |-> acc.total + 1]

\* the first position pair the loops visit with outer index >= i0, <<>> when
\* there is none
RowStart(s, n, w, i0) ==
    IF \E i \in i0..(n - 1) : i + 1 < EndWindow(s, i, n, w)
    THEN LET i == CHOOSE x \in i0..(n - 1) :
                    /\ x + 1 < EndWindow(s, x, n, w)
                    /\ \A y \in i0..(x - 1) : ~(y + 1 < EndWindow(s, y, n, w))
         IN <<i, i + 1>>
    ELSE <<>>

\* the position pair the loops visit after (i, j), <<>> when the loops end
NextPos(s, n, w, i, j) ==
    IF j + 1 < EndWindow(s, i, n, w) THEN <<i, j + 1>> ELSE RowStart(s, n, w, i + 1)

RECURSIVE CountFrom(_, _, _, _, _)
\* the pair loops run from position pair pos to their end
CountFrom(s, acc, stream, w, pos) ==
    IF pos = <<>> THEN acc
    ELSE CountFrom(s, CountPair(s, acc, stream, pos[1], pos[2]), stream, w,
                   NextPos(s, Len(stream), w, pos[1], pos[2]))

\* the pair table and total the pair loops build from an empty table
PairTable(s, stream, w) ==
    CountFrom(s, [pairs |-> <<>>, total |-> 0], stream, w,
              RowStart(s, Len(stream), w, 0))

\* one pass of the trigram loop body at Python position i
CountTrigram(table, stream, i) ==
    IF TrigramDistinct(stream[i + 1], stream[i + 2], stream[i + 3])
    THEN Incr(table, <<stream[i + 1], stream[i + 2], stream[i + 3]>>)
    ELSE table

(***************************************************************************)
(* The PMI scorer.  The score log2(r) is kept as the exact ratio r, a pair *)
(* [num, den] with den > 0; log2 is strictly increasing, so scores compare *)
(* as their ratios do.                                                     *)
(***************************************************************************)
\* mutant of Ratio: the quotient is inverted
RatioInverted(count, total_p, c1, c2, total_l) ==
    [num |-> total_p * c1 * c2, den |-> count * total_l * total_l]

\* p_pair / (p_w1 * p_w2) for a pair counted count times
Ratio(count, total_p, c1, c2, total_l) ==
    [num |-> count * total_l * total_l, den |-> total_p * c1 * c2]

\* math.log2(r), with  except ValueError: pmi = 0  (log2(1) = 0)
Log2OrZero(r) == IF r.num > 0 THEN r ELSE [num |-> 1, den |-> 1]

\* whether the PMI expression divides by zero
DividesByZero(total_p, c1, c2, total_l) ==
    total_p = 0 \/ total_l = 0 \/ c1 * c2 = 0

\* mutant of BelowThreshold: a pair at the threshold is dropped too
BelowOrAtThreshold(count, min_occ) == count <= min_occ

\* the test that drops a pair:  if count < min_occurrence: continue
BelowThreshold(count, min_occ) == count < min_occ

\* score a > score b
ScoreGreater(a, b) == a.num * b.den > b.num * a.den

RECURSIVE InsertDescBeforeTies(_, _)
\* mutant of InsertDesc: r is put before the records of equal score
InsertDescBeforeTies(recs, r) ==
    IF Len(recs) = 0 THEN <<r>>
    ELSE IF ~ScoreGreater(recs[1].pmi, r.pmi) THEN <<r>> \o recs
    ELSE <<recs[1]>> \o InsertDescBeforeTies(Tail(recs), r)

RECURSIVE InsertDesc(_, _)
\* r put into the descending sequence recs after every record whose score is
\* not smaller
InsertDesc(recs, r) ==
    IF Len(recs) = 0 THEN <<r>>
    ELSE IF ScoreGreater(r.pmi, recs[1].pmi) THEN <<r>> \o recs
    ELSE <<recs[1]>> \o InsertDesc(Tail(recs), r)

RECURSIVE SortDesc(_)
\* list.sort(key=lambda x: x[1], reverse=True): stable, descending
SortDesc(recs) ==
    IF Len(recs) = 0 THEN <<>>
    ELSE InsertDesc(SortDesc(SubSeq(recs, 1, Len(recs) - 1)), recs[Len(recs)])

(***************************************************************************)
(* State of one run of a counting script.                                  *)
(***************************************************************************)
VARIABLES
    script,           \* the script that runs
    pc,               \* where the run stands
    window_size,
    lemmas,           \* all_lemmas, or file_lemmas in analyze_cicero_stanza
    processed_files,  \* files analyze_cicero_stanza has finished
    lemma_counts,
    pair_counts,
    trigram_counts,
    total_pairs,
    i,                \* outer loop index (Python position)
    j,                \* inner loop index (Python position)
    total_lemmas,
    min_occurrence,
    pmi_scores,
    k,                \* index of the next item of pair_counts.items()
    \* the provenance parse of analyze_cicero and analyze_entropy
    current_metadata,
    current_sentence, \* parse_conllu_cicero
    sentences,        \* parse_conllu_cicero
    current_lemmas,   \* analyze_entropy
    author_lemmas,    \* analyze_entropy
    block_metadata,   \* history: the '#' lines read since the last blank line
    lines_read,       \* history: lines read in the run
    \* one call of get_author
    metadata_lines,
    author,
    \* the input of the filter loops
    tokens_read,      \* history: the tokens the filter loop has read
    origin,           \* history: file and sentence of every admitted lemma
    scope             \* the file and the sentence the filter loops are in

countVars ==
    <<script, pc, window_size, lemmas, processed_files, lemma_counts,
      pair_counts, trigram_counts, total_pairs, i, j, total_lemmas,
      min_occurrence, pmi_scores, k>>

provVars ==
    <<current_metadata, current_sentence, sentences, current_lemmas,
      author_lemmas, block_metadata, lines_read>>

authVars == <<metadata_lines, author>>

filterVars == <<tokens_read, origin, scope>>

vars == <<countVars, provVars, authVars, filterVars>>

\* the parse is not running
IdleProv ==
    /\ current_metadata = <<>>
    /\ current_sentence = <<>>
    /\ sentences = <<>>
    /\ current_lemmas = <<>>
    /\ author_lemmas = <<>>
    /\ block_metadata = <<>>
    /\ lines_read = 0

\* get_author is not called on its own
IdleAuth ==
    /\ metadata_lines = <<>>
    /\ author = ""

\* the input of the filter loops is not recorded
IdleFilter ==
    /\ tokens_read = <<>>
    /\ origin = <<>>
    /\ scope = [file |-> 1, sent |-> 1]

\* the tables and counters as the scripts create them
InitCount ==
    /\ script \in Scripts
    /\ window_size \in WindowSizes
    /\ pc = IF script = "stanza" THEN "files" ELSE "read"
    /\ lemmas = <<>>
    /\ processed_files = 0
    /\ lemma_counts = <<>>
    /\ pair_counts = <<>>
    /\ trigram_counts = <<>>
    /\ total_pairs = 0
    /\ i = 0
    /\ j = 0
    /\ total_lemmas = 0
    /\ min_occurrence = 0
    /\ pmi_scores = <<>>
    /\ k = 0

\* what the tokens of each script's input contribute to its stream, token by
\* token: <<lemma>> for an admitted token, <<>> for a rejected one
Contributions ==
    [s \in Scripts |-> {Admitted(s, tok.upos, tok.lemma) : tok \in Tokens(s)}]

\* lemmas admitted so far in the run
AdmittedSoFar ==
    IF script = "stanza" THEN SumCounts(lemma_counts) ELSE Len(lemmas)

\* the filter loop body on one token of the input
ReadToken ==
    /\ UNCHANGED <<provVars, authVars, filterVars>>
    /\ pc = "read"
    /\ AdmittedSoFar < MaxLen
    /\ \E a \in Contributions[script] :
           /\ lemmas' = lemmas \o a
           /\ lemma_counts' =
                IF script = "stanza" /\ a # <<>>
                THEN Incr(lemma_counts, a[1])
                ELSE lemma_counts
    /\ UNCHANGED <<script, pc, window_size, processed_files, pair_counts,
                   trigram_counts, total_pairs, i, j, total_lemmas,
                   min_occurrence, pmi_scores, k>>

\* where a whole-corpus script goes once the pair loops have ended
AfterPairs(n) == IF n > 2 THEN "trigrams" ELSE "score"

\* mutant of NextFile: the scorer stands inside the file loop, so the next
\* file is opened after the records of the files so far are computed
NextFileAfterScoring ==
    /\ UNCHANGED <<provVars, authVars, filterVars>>
    /\ pc \in {"files", "done"}
    /\ script = "stanza"
    /\ processed_files < MaxFiles
    /\ lemmas' = <<>>
    /\ pc' = "read"
    /\ UNCHANGED <<script, window_size, processed_files, lemma_counts,
                   pair_counts, trigram_counts, total_pairs, i, j,
                   total_lemmas, min_occurrence, pmi_scores, k>>

\* mutant of NextFile: the stream is not reset at the file
NextFileNoReset ==
    /\ UNCHANGED <<provVars, authVars, filterVars>>
    /\ pc = "files"
    /\ script = "stanza"
    /\ processed_files < MaxFiles
    /\ lemmas' = lemmas
    /\ pc' = "read"
    /\ UNCHANGED <<script, window_size, processed_files, lemma_counts,
                   pair_counts, trigram_counts, total_pairs, i, j,
                   total_lemmas, min_occurrence, pmi_scores, k>>

\* analyze_cicero_stanza opens the next file
NextFile ==
    /\ UNCHANGED <<provVars, authVars, filterVars>>
    /\ pc = "files"
    /\ script = "stanza"
    /\ processed_files < MaxFiles
    /\ lemmas' = <<>>
    /\ pc' = "read"
    /\ UNCHANGED <<script, window_size, processed_files, lemma_counts,
                   pair_counts, trigram_counts, total_pairs, i, j,
                   total_lemmas, min_occurrence, pmi_scores, k>>

\* analyze_cicero_stanza reaches the end of the file's paragraphs and enters
\* the pair loops of the file
EndFile ==
    /\ UNCHANGED <<provVars, authVars, filterVars>>
    /\ pc = "read"
    /\ script = "stanza"
    /\ LET first == RowStart(script, Len(lemmas), window_size, 0) IN
         IF first = <<>>
         THEN /\ pc' = "files"
              /\ processed_files' = processed_files + 1
              /\ UNCHANGED <<i, j>>
         ELSE /\ pc' = "pairs"
              /\ i' = first[1]
              /\ j' = first[2]
              /\ UNCHANGED processed_files
    /\ UNCHANGED <<script, window_size, lemmas, lemma_counts, pair_counts,
                   trigram_counts, total_pairs, total_lemmas, min_occurrence,
                   pmi_scores, k>>

\* a whole-corpus script reaches the end of its input, builds lemma_counts
\* and enters the pair loops (analyze_cicero returns on an empty stream)
EndInput ==
    /\ UNCHANGED <<provVars, authVars, filterVars>>
    /\ pc = "read"
    /\ script \in OrderPreserving
    /\ IF script = "cicero" /\ Len(lemmas) = 0
       THEN /\ pc' = "done"
            /\ UNCHANGED <<lemma_counts, i, j>>
       ELSE /\ lemma_counts' = CounterOf(lemmas)
            /\ LET first == RowStart(script, Len(lemmas), window_size, 0) IN
                 IF first = <<>>
                 THEN /\ pc' = AfterPairs(Len(lemmas))
                      /\ i' = 0
                      /\ UNCHANGED j
                 ELSE /\ pc' = "pairs"
                      /\ i' = first[1]
                      /\ j' = first[2]
    /\ UNCHANGED <<script, window_size, lemmas, processed_files, pair_counts,
                   trigram_counts, total_pairs, total_lemmas, min_occurrence,
                   pmi_scores, k>>

\* one pass of the inner pair loop, at positions (i, j)
PairStep ==
    /\ UNCHANGED <<provVars, authVars, filterVars>>
    /\ pc = "pairs"
    /\ LET acc == CountPair(script, [pairs |-> pair_counts, total |-> total_pairs],
                            lemmas, i, j)
           next == NextPos(script, Len(lemmas), window_size, i, j)
       IN /\ pair_counts' = acc.pairs
          /\ total_pairs' = acc.total
          /\ IF next # <<>>
             THEN /\ i' = next[1]
                  /\ j' = next[2]
                  /\ UNCHANGED <<pc, processed_files>>
             ELSE IF script = "stanza"
             THEN /\ pc' = "files"
                  /\ processed_files' = processed_files + 1
                  /\ UNCHANGED <<i, j>>
             ELSE /\ pc' = AfterPairs(Len(lemmas))
                  /\ i' = 0
                  /\ UNCHANGED <<j, processed_files>>
    /\ UNCHANGED <<script, window_size, lemmas, lemma_counts, trigram_counts,
                   total_lemmas, min_occurrence, pmi_scores, k>>

\* one pass of the trigram loop, at position i
TrigramStep ==
    /\ UNCHANGED <<provVars, authVars, filterVars>>
    /\ pc = "trigrams"
    /\ trigram_counts' = CountTrigram(trigram_counts, lemmas, i)
    /\ IF i + 1 < Len(lemmas) - 2
       THEN /\ i' = i + 1
            /\ UNCHANGED pc
       ELSE /\ pc' = "score"
            /\ UNCHANGED i
    /\ UNCHANGED <<script, window_size, lemmas, processed_files, lemma_counts,
                   pair_counts, total_pairs, j, total_lemmas, min_occurrence,
                   pmi_scores, k>>

\* the scorer's set-up: total_lemmas, min_occurrence, an empty pmi_scores
StartPMI ==
    /\ UNCHANGED <<provVars, authVars, filterVars>>
    /\ \/ pc = "score"
       \/ pc = "files" /\ script = "stanza"
    /\ total_lemmas' =
         IF script = "stanza" THEN SumCounts(lemma_counts) ELSE Len(lemmas)
    /\ min_occurrence' \in MinOccurrences(script)
    /\ pmi_scores' = <<>>
    /\ k' = 1
    /\ pc' = IF Len(pair_counts) = 0 THEN "sort" ELSE "pmi"
    /\ UNCHANGED <<script, window_size, lemmas, processed_files, lemma_counts,
                   pair_counts, trigram_counts, total_pairs, i, j>>

\* one pass of the scoring loop, on item k of pair_counts.items()
PMIStep ==
    /\ UNCHANGED <<provVars, authVars, filterVars>>
    /\ pc = "pmi"
    /\ LET pair == pair_counts[k].key
           count == pair_counts[k].count
           c1 == Get(lemma_counts, pair[1])
           c2 == Get(lemma_counts, pair[2])
       IN IF BelowThreshold(count, min_occurrence)
          THEN /\ pmi_scores' = pmi_scores
               /\ pc' = IF k = Len(pair_counts) THEN "sort" ELSE "pmi"
          ELSE IF DividesByZero(total_pairs, c1, c2, total_lemmas)
          THEN /\ pmi_scores' = pmi_scores
               /\ pc' = "crash"
          ELSE /\ pmi_scores' =
                    Append(pmi_scores,
                           [pair |-> pair,
                            pmi |-> Log2OrZero(Ratio(count, total_pairs, c1, c2,
                                                     total_lemmas)),
                            count |-> count])
               /\ pc' = IF k = Len(pair_counts) THEN "sort" ELSE "pmi"
    /\ k' = k + 1
    /\ UNCHANGED <<script, window_size, lemmas, processed_files, lemma_counts,
                   pair_counts, trigram_counts, total_pairs, i, j,
                   total_lemmas, min_occurrence>>

\* pmi_scores.sort(key=lambda x: x[1], reverse=True)
SortScores ==
    /\ UNCHANGED <<provVars, authVars, filterVars>>
    /\ pc = "sort"
    /\ pmi_scores' = SortDesc(pmi_scores)
    /\ pc' = "done"
    /\ UNCHANGED <<script, window_size, lemmas, processed_files, lemma_counts,
                   pair_counts, trigram_counts, total_pairs, i, j,
                   total_lemmas, min_occurrence, k>>

Init == InitCount /\ IdleProv /\ IdleAuth /\ IdleFilter

Next ==
    \/ ReadToken
    \/ NextFile
    \/ EndFile
    \/ EndInput
    \/ PairStep
    \/ TrigramStep
    \/ StartPMI
    \/ PMIStep
    \/ SortScores

Spec == Init /\ [][Next]_vars

(***************************************************************************)
(* Properties of the counting pass.                                        *)
(***************************************************************************)
\* the pair pass over the current stream has ended
PairsEnded ==
    \/ script \in OrderPreserving /\ pc \in {"trigrams", "score"}
    \/ script = "stanza" /\ pc = "files" /\ processed_files > 0

\* the pair table holds the pairs of exactly the current stream
PairsOfStream ==
    \/ script \in OrderPreserving /\ pc = "score"
    \/ script = "stanza" /\ pc = "files" /\ processed_files = 1

\* C1: no self-pairs.  In every script, at every point of a run, the pair
\* table holds no key whose two lemmas are equal.
NoSelfPairs ==
    \A p \in 1..Len(pair_counts) : pair_counts[p].key[1] # pair_counts[p].key[2]

\* C1 witness: a pair pass has ended on a stream that holds the same lemma
\* twice inside the window, and has counted pairs
NoSelfPairsWitness ==
    /\ PairsEnded
    /\ Len(pair_counts) > 0
    /\ \E p, q \in 1..Len(lemmas) :
         p < q /\ q - p < window_size /\ lemmas[p] = lemmas[q]

\* trigram positions (Python) the trigram loop has passed
TrigramsPassed ==
    IF pc = "trigrams" THEN 0..(i - 1)
    ELSE IF script \in OrderPreserving /\ pc \in {"score", "pmi", "sort", "done"}
    THEN 0..(Len(lemmas) - 3)
    ELSE {}

\* C2: no degenerate trigrams.  Every key of the trigram table is three
\* adjacent lemmas of the stream, pairwise distinct, and its count is the
\* number of passed positions that hold it; a position whose three lemmas are
\* not pairwise distinct adds nothing.
NoDegenerateTrigrams ==
    LET At(p) == <<lemmas[p + 1], lemmas[p + 2], lemmas[p + 3]>>
        Good(p) == /\ lemmas[p + 1] # lemmas[p + 2]
                   /\ lemmas[p + 2] # lemmas[p + 3]
                   /\ lemmas[p + 1] # lemmas[p + 3]
    IN /\ \A t \in Keys(trigram_counts) :
            /\ Cardinality({t[1], t[2], t[3]}) = 3
            /\ \E p \in TrigramsPassed : p + 2 < Len(lemmas) /\ At(p) = t
       /\ \A p \in TrigramsPassed :
            Good(p) =>
              Get(trigram_counts, At(p)) =
                Cardinality({q \in TrigramsPassed : At(q) = At(p)})
       /\ SumCounts(trigram_counts) =
            Cardinality({p \in TrigramsPassed : Good(p)})

\* C2 witness: the trigram loop has ended on a stream with a degenerate
\* position and a recorded trigram
NoDegenerateTrigramsWitness ==
    /\ pc = "score"
    /\ Len(trigram_counts) > 0
    /\ \E p \in 1..(Len(lemmas) - 2) :
         Cardinality({lemmas[p], lemmas[p + 1], lemmas[p + 2]}) < 3

\* C3: window bound in order-preserving mode.  Every increment of the pair
\* table comes from positions i < j with j - i < window_size, under the key
\* (stream[i], stream[j]) in observed order, and adds one to the total.
WindowBound ==
    [][(script \in OrderPreserving /\ pair_counts' # pair_counts) =>
          /\ pc = "pairs"
          /\ i < j
          /\ j - i < window_size
          /\ j < Len(lemmas)
          /\ pair_counts' = Incr(pair_counts, <<lemmas[i + 1], lemmas[j + 1]>>)
          /\ total_pairs' = total_pairs + 1]_vars

\* C3 witness: an order-preserving pair pass has ended on a stream longer
\* than the window, whose ends are distinct lemmas and too far apart
WindowBoundWitness ==
    /\ script \in OrderPreserving
    /\ pc = "score"
    /\ Len(lemmas) > window_size
    /\ lemmas[1] # lemmas[Len(lemmas)]
    /\ <<lemmas[1], lemmas[Len(lemmas)]>> \notin Keys(pair_counts)

\* C4 as claimed: the order-independent counter visits, for position i, only
\* the positions j with i + 1 <= j < min(i + window_size, length).
StanzaSameWindow ==
    (script = "stanza" /\ pc = "pairs") =>
        (i + 1 <= j /\ j < Min(i + window_size, Len(lemmas)))

\* C5 as claimed: the order-independent counter on rex amat rex regina with
\* window_size = 3 ends with (amat,rex) 2, (amat,regina) 1, (regina,rex) 1 and
\* total_pairs = 4.
EndToEndScenario ==
    (/\ script = "stanza"
     /\ window_size = 3
     /\ pc = "files"
     /\ processed_files = 1
     /\ lemmas = <<"rex", "amat", "rex", "regina">>) =>
        /\ Keys(pair_counts) =
             {<<"amat", "rex">>, <<"amat", "regina">>, <<"regina", "rex">>}
        /\ Get(pair_counts, <<"amat", "rex">>) = 2
        /\ Get(pair_counts, <<"amat", "regina">>) = 1
        /\ Get(pair_counts, <<"regina", "rex">>) = 1
        /\ total_pairs = 4

\* C6: order-independence merge.  In analyze_cicero_stanza every key is in
\* lexicographic order, the table never holds a key and its reverse, and a
\* stream A B A B ends with one key that holds every counted pair.
OrderIndependentMerge ==
    script = "stanza" =>
        /\ \A key \in Keys(pair_counts) : StrLess(key[1], key[2])
        /\ \A k1, k2 \in Keys(pair_counts) : k1 # <<k2[2], k2[1]>>
        /\ (/\ PairsOfStream
            /\ Len(lemmas) = 4
            /\ lemmas[1] # lemmas[2]
            /\ lemmas[3] = lemmas[1]
            /\ lemmas[4] = lemmas[2]) =>
               /\ Len(pair_counts) = 1
               /\ pair_counts[1].count = total_pairs
               /\ total_pairs >= 3

\* C6 witness: the order-independent pass has ended on regina amat regina
\* amat, where the first pair is seen in descending order
OrderIndependentMergeWitness ==
    /\ script = "stanza"
    /\ PairsOfStream
    /\ lemmas = <<"regina", "amat", "regina", "amat">>
    /\ Keys(pair_counts) = {<<"amat", "regina">>}

\* position pairs (Python) the pair loops visit that straddle split point s:
\* the first position before it, the second at or after it
Straddling(s) ==
    {pq \in (0..(s - 1)) \X (s..(Len(lemmas) - 1)) :
        pq[2] < EndWindow(script, pq[1], Len(lemmas), window_size)}

\* the straddling position pairs counted under key
StraddlingUnder(s, key) ==
    {pq \in Straddling(s) :
        /\ lemmas[pq[1] + 1] # lemmas[pq[2] + 1]
        /\ PairKey(script, lemmas[pq[1] + 1], lemmas[pq[2] + 1]) = key}

\* every key two lemmas of the stream can form
StreamKeys ==
    {<<lemmas[p], lemmas[q]>> : p, q \in 1..Len(lemmas)}

\* C7 as claimed: count conservation under merge.  For every split point,
\* the pair tables of the two parts added key by key, and their totals
\* added, are the table and total of the whole stream.
CountConservation ==
    PairsOfStream =>
        \A s \in 0..Len(lemmas) :
            LET left == PairTable(script, SubSeq(lemmas, 1, s), window_size)
                right == PairTable(script, SubSeq(lemmas, s + 1, Len(lemmas)),
                                   window_size)
            IN /\ total_pairs = left.total + right.total
               /\ \A key \in StreamKeys :
                    Get(pair_counts, key) =
                      Get(left.pairs, key) + Get(right.pairs, key)

\* C7 amended: the table of the whole stream is the sum of the tables of
\* the two parts plus the pairs that straddle the split point, key by key
\* and in total; the sums agree when no counted pair straddles it.
CountConservationUpToStraddling ==
    PairsOfStream =>
        \A s \in 0..Len(lemmas) :
            LET left == PairTable(script, SubSeq(lemmas, 1, s), window_size)
                right == PairTable(script, SubSeq(lemmas, s + 1, Len(lemmas)),
                                   window_size)
            IN /\ total_pairs =
                    left.total + right.total
                    + Cardinality({pq \in Straddling(s) :
                                     lemmas[pq[1] + 1] # lemmas[pq[2] + 1]})
               /\ \A key \in StreamKeys :
                    Get(pair_counts, key) =
                      Get(left.pairs, key) + Get(right.pairs, key)
                      + Cardinality(StraddlingUnder(s, key))
               /\ Keys(pair_counts) \subseteq StreamKeys

\* C7 witness: a pass has ended on a stream one of whose split points has
\* counted pairs on both sides and a counted pair across it
CountConservationWitness ==
    /\ PairsOfStream
    /\ \E s \in 1..(Len(lemmas) - 1) :
         /\ PairTable(script, SubSeq(lemmas, 1, s), window_size).total > 0
         /\ PairTable(script, SubSeq(lemmas, s + 1, Len(lemmas)), window_size).total > 0
         /\ \E key \in StreamKeys : StraddlingUnder(s, key) # {}
         /\ \E pq \in Straddling(s) : lemmas[pq[1] + 1] = lemmas[pq[2] + 1]

\* C8: threshold enforcement.  The scorer produces one record for every
\* pair whose count is at least min_occurrence and none for the others,
\* and a record's count is the pair table's count of its pair.
ThresholdEnforcement ==
    /\ pc \in {"pmi", "sort", "done"} =>
         \A r \in 1..Len(pmi_scores) :
            /\ pmi_scores[r].pair \in Keys(pair_counts)
            /\ pmi_scores[r].count = Get(pair_counts, pmi_scores[r].pair)
            /\ pmi_scores[r].count >= min_occurrence
            /\ \A r2 \in 1..Len(pmi_scores) :
                 pmi_scores[r2].pair = pmi_scores[r].pair => r2 = r
    /\ pc \in {"sort", "done"} =>
         \A key \in Keys(pair_counts) :
            Get(pair_counts, key) >= min_occurrence =>
               \E r \in 1..Len(pmi_scores) : pmi_scores[r].pair = key

\* C8 witness: the scorer has ended on a table with a pair at the threshold,
\* which it kept, and a pair below it
ThresholdEnforcementWitness ==
    /\ pc = "done"
    /\ Len(pmi_scores) > 0
    /\ \E key \in Keys(pair_counts) : Get(pair_counts, key) = min_occurrence
    /\ \E key \in Keys(pair_counts) : Get(pair_counts, key) < min_occurrence

\* the scorer has started
Scoring == pc \in {"pmi", "sort", "done", "crash"}

\* C13: empty input is not fatal.  When the stream is empty, or yields no
\* pair (total_pairs = 0), the run goes on to its end with no PMI record:
\* the scoring loop is not entered, so no division by total_pairs = 0 or
\* total_lemmas = 0 is evaluated, and once the input is read the run is never
\* stuck before its end.
EmptyInputNonFatal ==
    /\ pc \in {"pmi", "crash"} => total_pairs > 0 /\ total_lemmas > 0
    /\ (Scoring /\ (total_pairs = 0 \/ total_lemmas = 0)) =>
          /\ pmi_scores = <<>>
          /\ pc \in {"sort", "done"}
    /\ (total_pairs = 0 /\ pc \notin {"read", "done"}) => ENABLED Next

\* C13 witness: a run has ended without a record on a stream that repeats
\* one lemma and so yields no pair
EmptyInputNonFatalWitness ==
    /\ pc = "done"
    /\ Len(lemmas) >= 2
    /\ total_pairs = 0
    /\ total_lemmas = Len(lemmas)
    /\ pmi_scores = <<>>

\* the product of the unigram counts of the two lemmas of a record
UnigramProduct(r) ==
    Get(lemma_counts, r.pair[1]) * Get(lemma_counts, r.pair[2])

\* C14: PMI monotonicity.  The value the scorer takes the logarithm of is
\* count * total_lemmas^2 / (total_pairs * c1 * c2); of two records of a run
\* whose unigram counts have the same product, the one with the larger pair
\* count has the strictly larger score.
PMIMonotonicity ==
    pc \in {"pmi", "sort", "done"} =>
        /\ \A r \in 1..Len(pmi_scores) :
             pmi_scores[r].pmi.num * (total_pairs * UnigramProduct(pmi_scores[r]))
               = pmi_scores[r].count * total_lemmas * total_lemmas
                 * pmi_scores[r].pmi.den
        /\ \A r1, r2 \in 1..Len(pmi_scores) :
             (/\ UnigramProduct(pmi_scores[r1]) = UnigramProduct(pmi_scores[r2])
              /\ pmi_scores[r1].count > pmi_scores[r2].count)
                => ScoreGreater(pmi_scores[r1].pmi, pmi_scores[r2].pmi)

\* C14 witness: the scorer has ended with the records of a pair and of its
\* reverse, which have the same unigram counts and different pair counts
PMIMonotonicityWitness ==
    /\ pc = "done"
    /\ \E r1, r2 \in 1..Len(pmi_scores) :
         /\ pmi_scores[r1].pair[1] = pmi_scores[r2].pair[2]
         /\ pmi_scores[r1].pair[2] = pmi_scores[r2].pair[1]
         /\ pmi_scores[r1].count > pmi_scores[r2].count

\* C15: PMI runs only on global totals.  In analyze_cicero_stanza no record
\* exists while files are still processed, and once the scorer has started
\* no file is processed any more and pair_counts, lemma_counts, total_pairs
\* and total_lemmas do not change, total_lemmas being the sum of the
\* unigram counts of all files.
GlobalTotalsOnly ==
    [][script = "stanza" =>
         /\ pc \in {"files", "read", "pairs"} => pmi_scores = <<>>
         /\ pc \in {"pmi", "sort", "done"} =>
              /\ pc' \in {"pmi", "sort", "done", "crash"}
              /\ total_lemmas = SumCounts(lemma_counts)
              /\ UNCHANGED <<pair_counts, lemma_counts, total_pairs,
                             total_lemmas, processed_files>>
         /\ pmi_scores' # pmi_scores => pc \in {"pmi", "sort"}]_vars

\* C15 witness: analyze_cicero_stanza has ended after two files with a
\* record whose count the last file alone does not give
GlobalTotalsOnlyWitness ==
    /\ script = "stanza"
    /\ pc = "done"
    /\ processed_files = 2
    /\ \E r \in 1..Len(pmi_scores) :
         pmi_scores[r].count >
           Get(PairTable(script, lemmas, window_size).pairs, pmi_scores[r].pair)

\* the position of key in the pair table, in insertion order
PositionOf(key) ==
    CHOOSE p \in 1..Len(pair_counts) : pair_counts[p].key = key

\* C16: output ordering.  The records the scorer returns are in descending
\* order of score, and records of equal score are in the order in which
\* their pairs were first inserted into the pair table.
OutputOrdering ==
    pc = "done" =>
        \A r1, r2 \in 1..Len(pmi_scores) :
            r1 < r2 =>
              /\ ~ScoreGreater(pmi_scores[r2].pmi, pmi_scores[r1].pmi)
              /\ ~ScoreGreater(pmi_scores[r1].pmi, pmi_scores[r2].pmi) =>
                   PositionOf(pmi_scores[r1].pair) < PositionOf(pmi_scores[r2].pair)

\* C16 witness: the scorer has returned two records of equal score and a
\* record that the sort has moved before a pair inserted earlier
OutputOrderingWitness ==
    /\ pc = "done"
    /\ \E r1, r2 \in 1..Len(pmi_scores) :
         /\ r1 < r2
         /\ ~ScoreGreater(pmi_scores[r1].pmi, pmi_scores[r2].pmi)
    /\ \E r1, r2 \in 1..Len(pmi_scores) :
         /\ r1 < r2
         /\ PositionOf(pmi_scores[r1].pair) > PositionOf(pmi_scores[r2].pair)

\* C18: log2 is always defined.  Every pair the scorer reaches has a count
\* of at least 1 and at most total_pairs, total_lemmas is at least 1 and
\* both lemmas of the pair have a unigram count of at least 1; no division
\* by zero happens, and the argument of log2 is strictly positive in every
\* record, so the fallback pmi = 0 is never taken.
Log2Defined ==
    /\ pc # "crash"
    /\ pc = "pmi" =>
         /\ total_lemmas >= 1
         /\ \A p \in 1..Len(pair_counts) :
              /\ pair_counts[p].count >= 1
              /\ total_pairs >= pair_counts[p].count
              /\ Get(lemma_counts, pair_counts[p].key[1]) >= 1
              /\ Get(lemma_counts, pair_counts[p].key[2]) >= 1
    /\ pc \in {"pmi", "sort", "done"} =>
         \A r \in 1..Len(pmi_scores) :
            /\ pmi_scores[r].pmi.num > 0
            /\ pmi_scores[r].pmi.den > 0
            /\ pmi_scores[r].pmi.num =
                 pmi_scores[r].count * total_lemmas * total_lemmas

\* C18 witness: the scorer has ended with a record of a pair one of whose
\* lemmas occurs once in the corpus, the smallest unigram count
Log2DefinedWitness ==
    /\ pc = "done"
    /\ \E r \in 1..Len(pmi_scores) :
         /\ Get(lemma_counts, pmi_scores[r].pair[1]) = 1
         /\ Get(lemma_counts, pmi_scores[r].pair[2]) > 1

\* C21: the running total matches the table.  After every step, in every
\* script, total_pairs is the sum of the counts of the pair table, every
\* count is at least 1 and no count has decreased; in analyze_cicero_stanza
\* this holds across the files, every admitted lemma adds one to the sum of
\* the unigram counts and nothing else changes it, and total_lemmas is
\* that sum, the number of lemmas admitted over all files.
RunningTotalMatches ==
    [][/\ total_pairs' = SumCounts(pair_counts')
       /\ \A p \in 1..Len(pair_counts') : pair_counts'[p].count >= 1
       /\ \A p \in 1..Len(pair_counts) :
            /\ p <= Len(pair_counts')
            /\ pair_counts'[p].key = pair_counts[p].key
            /\ pair_counts'[p].count >= pair_counts[p].count
       /\ script = "stanza" =>
            /\ SumCounts(lemma_counts') - SumCounts(lemma_counts) =
                 IF pc = "read" /\ pc' = "read"
                 THEN Len(lemmas') - Len(lemmas)
                 ELSE 0
            /\ pc' \in {"pmi", "sort", "done"} =>
                 total_lemmas' = SumCounts(lemma_counts')]_vars

\* C21 witness: analyze_cicero_stanza has ended after two files; a pair
\* counted in both files has a count above 1, and total_lemmas exceeds the
\* length of the last file's stream
RunningTotalMatchesWitness ==
    /\ script = "stanza"
    /\ pc = "done"
    /\ processed_files = 2
    /\ total_pairs = SumCounts(pair_counts)
    /\ \E p \in 1..Len(pair_counts) : pair_counts[p].count > 1
    /\ Len(lemmas) > 0
    /\ total_lemmas > Len(lemmas)

(***************************************************************************)
(* The provenance classifier.                                              *)
(***************************************************************************)
\* most metadata lines in one call of get_author
MaxMeta == 2

\* mutant of get_author: the Caesar group is tested before the Cicero group
get_authorCaesarFirst(lines) ==
    LET meta_text == Lower(Join(lines)) IN
      IF Contains(meta_text, "phi0448") \/ Contains(meta_text, "caesar")
         \/ Contains(meta_text, "gallico")
      THEN "Caesar"
      ELSE IF Contains(meta_text, "phi0474") \/ Contains(meta_text, "cicero")
         \/ Contains(meta_text, "atticum") \/ Contains(meta_text, "officiis")
      THEN "Cicero"
      ELSE IF Contains(meta_text, "phi0690") \/ Contains(meta_text, "vergil")
         \/ Contains(meta_text, "aeneid")
      THEN "Vergil"
      ELSE IF Contains(meta_text, "phi0959") \/ Contains(meta_text, "ovid")
         \/ Contains(meta_text, "metamorphoses")
      THEN "Ovid"
      ELSE IF Contains(meta_text, "jerome") \/ Contains(meta_text, "vulgate")
         \/ Contains(meta_text, "testamentum")
      THEN "Jerome (Vulgate)"
      ELSE "Other"

get_author(lines) ==
    LET meta_text == Lower(Join(lines)) IN
      IF Contains(meta_text, "phi0474") \/ Contains(meta_text, "cicero")
         \/ Contains(meta_text, "atticum") \/ Contains(meta_text, "officiis")
      THEN "Cicero"
      ELSE IF Contains(meta_text, "phi0448") \/ Contains(meta_text, "caesar")
         \/ Contains(meta_text, "gallico")
      THEN "Caesar"
      ELSE IF Contains(meta_text, "phi0690") \/ Contains(meta_text, "vergil")
         \/ Contains(meta_text, "aeneid")
      THEN "Vergil"
      ELSE IF Contains(meta_text, "phi0959") \/ Contains(meta_text, "ovid")
         \/ Contains(meta_text, "metamorphoses")
      THEN "Ovid"
      ELSE IF Contains(meta_text, "jerome") \/ Contains(meta_text, "vulgate")
         \/ Contains(meta_text, "testamentum")
      THEN "Jerome (Vulgate)"
      ELSE "Other"

\* the test of parse_conllu_cicero on a sentence that a blank line ends
IsCicero(lines) ==
    LET meta_text == Join(lines) IN
      \/ Contains(meta_text, "phi0474") \/ Contains(meta_text, "Cicero")
      \/ Contains(meta_text, "Atticum") \/ Contains(meta_text, "Officiis")
      \/ Contains(meta_text, "Catilinam") \/ Contains(meta_text, "Archia")
      \/ Contains(meta_text, "Murena") \/ Contains(meta_text, "Sestio")
      \/ Contains(meta_text, "Verr")

\* the test of parse_conllu_cicero on the sentence that the end of the file
\* ends
IsCiceroAtEnd(lines) ==
    LET meta_text == Join(lines) IN
      \/ Contains(meta_text, "phi0474") \/ Contains(meta_text, "Cicero")
      \/ Contains(meta_text, "Atticum") \/ Contains(meta_text, "Officiis")

\* metadata lines get_author is called on
MetaLines ==
    { "# source: phi0474", "# note: unrelated", "# CICERO", "# Caesar",
      "# de bello Gallico", "# Aeneid", "# ovid", "# Vulgate",
      "# phi0690 Jerome", "# sent_id = 1" }

\* sequences over set S of length at most n
SeqsUpTo(S, n) == UNION {[1..m -> S] : m \in 0..n}

InitAuthor ==
    /\ metadata_lines \in SeqsUpTo(MetaLines, MaxMeta)
    /\ author = ""
    /\ script = "get_author"
    /\ pc = "call"
    /\ window_size = 0
    /\ lemmas = <<>>
    /\ processed_files = 0
    /\ lemma_counts = <<>>
    /\ pair_counts = <<>>
    /\ trigram_counts = <<>>
    /\ total_pairs = 0
    /\ i = 0
    /\ j = 0
    /\ total_lemmas = 0
    /\ min_occurrence = 0
    /\ pmi_scores = <<>>
    /\ k = 0
    /\ IdleProv
    /\ IdleFilter

\* one call of get_author
Classify ==
    /\ pc = "call"
    /\ author' = get_author(metadata_lines)
    /\ pc' = "returned"
    /\ UNCHANGED <<script, window_size, lemmas, processed_files, lemma_counts,
                   pair_counts, trigram_counts, total_pairs, i, j,
                   total_lemmas, min_occurrence, pmi_scores, k>>
    /\ UNCHANGED <<provVars, metadata_lines, filterVars>>

SpecAuthor == InitAuthor /\ [][Classify]_vars

\* the rule groups in their order: label and markers
RuleGroups ==
    << [label |-> "Cicero", markers |-> {"phi0474", "cicero", "atticum", "officiis"}],
       [label |-> "Caesar", markers |-> {"phi0448", "caesar", "gallico"}],
       [label |-> "Vergil", markers |-> {"phi0690", "vergil", "aeneid"}],
       [label |-> "Ovid", markers |-> {"phi0959", "ovid", "metamorphoses"}],
       [label |-> "Jerome (Vulgate)", markers |-> {"jerome", "vulgate", "testamentum"}] >>

\* whether a marker of group g occurs in the lower-cased, joined metadata
GroupMatches(g, lines) ==
    \E m \in RuleGroups[g].markers : Contains(Lower(Join(lines)), m)

MaxLines == 5

Tab == "\t"

RECURSIVE Strip(_)
\* str.strip(), for blanks, tabs and line ends
Strip(t) ==
    IF Len(t) = 0 THEN t
    ELSE IF CharAt(t, 1) \in {" ", Tab, "\n"} THEN Strip(SubSeq(t, 2, Len(t)))
    ELSE IF CharAt(t, Len(t)) \in {" ", Tab, "\n"} THEN Strip(SubSeq(t, 1, Len(t) - 1))
    ELSE t

RECURSIVE SplitTabs(_)
\* str.split('\t')
SplitTabs(t) ==
    IF ~Contains(t, Tab) THEN <<t>>
    ELSE LET p == CHOOSE q \in 1..Len(t) :
                    /\ CharAt(t, q) = Tab
                    /\ \A r \in 1..(q - 1) : CharAt(t, r) # Tab
         IN <<SubSeq(t, 1, p - 1)>> \o SplitTabs(SubSeq(t, p + 1, Len(t)))

\* str.startswith
StartsWith(t, prefix) ==
    Len(t) >= Len(prefix) /\ SubSeq(t, 1, Len(prefix)) = prefix

\* the lines of the input files
InputLines ==
    { "\n",
      "# source: phi0474\n",
      "# note: unrelated\n",
      "# text = In Catilinam\n",
      "1\tRex\trex\tNOUN\n",
      "2\t,\t,\tPUNCT\n",
      "3-4\tamatque\t_\t_\n" }

\* each input line stripped, with its fields
Parsed ==
    [l \in InputLines |->
        [line |-> Strip(l), parts |-> SplitTabs(Strip(l))]]

ProvScripts == {"cicero", "entropy"}

\* STOP_POS of analyze_entropy
ENTROPY_STOP_POS == {"PUNCT", "SYM", "NUM", "X"}

\* the author labels get_author returns for a classified sentence
Authors == {"Cicero", "Caesar", "Vergil", "Ovid", "Jerome (Vulgate)"}

RECURSIVE AdmittedOf(_, _)
\* the filter loop of analyze_cicero over the tokens of one sentence
AdmittedOf(s, sentence) ==
    IF Len(sentence) = 0 THEN <<>>
    ELSE Admitted(s, sentence[1].upos, sentence[1].lemma)
         \o AdmittedOf(s, Tail(sentence))

RECURSIVE AdmittedOfAll(_, _)
\* the filter loop of analyze_cicero over the sentences of one file
AdmittedOfAll(s, sents) ==
    IF Len(sents) = 0 THEN <<>>
    ELSE AdmittedOf(s, sents[1]) \o AdmittedOfAll(s, Tail(sents))

InitProv ==
    /\ script \in ProvScripts
    /\ pc = "between"
    /\ lemmas = <<>>
    /\ current_metadata = <<>>
    /\ current_sentence = <<>>
    /\ sentences = <<>>
    /\ current_lemmas = <<>>
    /\ author_lemmas = [a \in Authors |-> <<>>]
    /\ block_metadata = <<>>
    /\ lines_read = 0
    /\ window_size = 0
    /\ processed_files = 0
    /\ lemma_counts = <<>>
    /\ pair_counts = <<>>
    /\ trigram_counts = <<>>
    /\ total_pairs = 0
    /\ i = 0
    /\ j = 0
    /\ total_lemmas = 0
    /\ min_occurrence = 0
    /\ pmi_scores = <<>>
    /\ k = 0
    /\ IdleAuth
    /\ IdleFilter

\* author_lemmas[author].extend(current_lemmas) unless the author is 'Other'
Extend(table, who, list) ==
    IF who # "Other" THEN [table EXCEPT ![who] = @ \o list] ELSE table

\* the next file is opened: the parse starts with empty lists
OpenFile ==
    /\ pc = "between"
    /\ lines_read < MaxLines
    /\ pc' = "parse"
    /\ current_metadata' = <<>>
    /\ current_sentence' = <<>>
    /\ current_lemmas' = <<>>
    /\ sentences' = <<>>
    /\ block_metadata' = <<>>
    /\ UNCHANGED <<script, lemmas, author_lemmas, lines_read>>
    /\ UNCHANGED <<window_size, processed_files, lemma_counts, pair_counts,
                   trigram_counts, total_pairs, i, j, total_lemmas,
                   min_occurrence, pmi_scores, k, authVars, filterVars>>

\* parse_conllu_cicero on one line
CiceroLine(l) ==
    IF l.line = ""
    THEN IF current_sentence # <<>>
         THEN /\ sentences' = IF IsCicero(current_metadata)
                              THEN Append(sentences, current_sentence)
                              ELSE sentences
              /\ current_sentence' = <<>>
              /\ current_metadata' = <<>>
         ELSE UNCHANGED <<sentences, current_sentence, current_metadata>>
    ELSE IF StartsWith(l.line, "#")
    THEN /\ current_metadata' = Append(current_metadata, l.line)
         /\ UNCHANGED <<sentences, current_sentence>>
    ELSE IF Len(l.parts) >= 4
            /\ ~(Contains(l.parts[1], "-") \/ Contains(l.parts[1], "."))
    THEN /\ current_sentence' =
              Append(current_sentence,
                     [form |-> l.parts[2], lemma |-> l.parts[3], upos |-> l.parts[4]])
         /\ UNCHANGED <<sentences, current_metadata>>
    ELSE UNCHANGED <<sentences, current_sentence, current_metadata>>

\* the file loop of analyze_entropy on one line
EntropyLine(l) ==
    IF l.line = ""
    THEN IF current_lemmas # <<>>
         THEN /\ author_lemmas' =
                   Extend(author_lemmas, get_author(current_metadata), current_lemmas)
              /\ current_lemmas' = <<>>
              /\ current_metadata' = <<>>
         ELSE UNCHANGED <<author_lemmas, current_lemmas, current_metadata>>
    ELSE IF StartsWith(l.line, "#")
    THEN /\ current_metadata' = Append(current_metadata, l.line)
         /\ UNCHANGED <<author_lemmas, current_lemmas>>
    ELSE IF Len(l.parts) >= 4
            /\ l.parts[4] \notin ENTROPY_STOP_POS /\ Lower(l.parts[3]) # "_"
    THEN /\ current_lemmas' = Append(current_lemmas, Lower(l.parts[3]))
         /\ UNCHANGED <<author_lemmas, current_metadata>>
    ELSE UNCHANGED <<author_lemmas, current_lemmas, current_metadata>>

\* one line of the file is read
ReadLine ==
    /\ pc = "parse"
    /\ lines_read < MaxLines
    /\ \E raw \in InputLines :
         LET l == Parsed[raw] IN
           /\ IF script = "cicero"
              THEN CiceroLine(l) /\ UNCHANGED <<author_lemmas, current_lemmas>>
              ELSE EntropyLine(l) /\ UNCHANGED <<sentences, current_sentence>>
           /\ block_metadata' =
                IF l.line = "" THEN <<>>
                ELSE IF StartsWith(l.line, "#") THEN Append(block_metadata, l.line)
                ELSE block_metadata
    /\ lines_read' = lines_read + 1
    /\ UNCHANGED <<script, pc, lemmas>>
    /\ UNCHANGED <<window_size, processed_files, lemma_counts, pair_counts,
                   trigram_counts, total_pairs, i, j, total_lemmas,
                   min_occurrence, pmi_scores, k, authVars, filterVars>>

\* the end of the file: the last sentence, and in analyze_cicero the filter
\* loop over the sentences the parse returns
EndOfFile ==
    /\ pc = "parse"
    /\ pc' = "between"
    /\ IF script = "cicero"
       THEN /\ sentences' =
                 IF current_sentence # <<>> /\ IsCiceroAtEnd(current_metadata)
                 THEN Append(sentences, current_sentence)
                 ELSE sentences
            /\ lemmas' = lemmas \o AdmittedOfAll("cicero", sentences')
            /\ UNCHANGED author_lemmas
       ELSE /\ author_lemmas' =
                 IF current_lemmas # <<>> /\ current_metadata # <<>>
                 THEN Extend(author_lemmas, get_author(current_metadata),
                             current_lemmas)
                 ELSE author_lemmas
            /\ UNCHANGED <<sentences, lemmas>>
    /\ UNCHANGED <<script, current_metadata, current_sentence, current_lemmas,
                   block_metadata, lines_read>>
    /\ UNCHANGED <<window_size, processed_files, lemma_counts, pair_counts,
                   trigram_counts, total_pairs, i, j, total_lemmas,
                   min_occurrence, pmi_scores, k, authVars, filterVars>>

NextProv == OpenFile \/ ReadLine \/ EndOfFile

SpecProv == InitProv /\ [][NextProv]_vars

\* C10 as claimed: unclassified sentences never enter an author-scoped
\* stream.  A sentence is kept for Cicero (analyze_cicero), or its lemmas
\* are appended to an author's stream (analyze_entropy), only if the
\* metadata block of the sentence itself, the '#' lines since the last blank
\* line, classifies to that author.
OwnMetadataDecides ==
    [][/\ (script = "cicero" /\ Len(sentences') > Len(sentences))
            => IsCicero(block_metadata)
       /\ script = "entropy" =>
            \A a \in Authors :
               author_lemmas'[a] # author_lemmas[a]
                  => get_author(block_metadata) = a]_vars

\* C19 as claimed: classification does not depend on how a sentence ends.
\* parse_conllu_cicero keeps the sentence that the end of the file ends
\* exactly when it would keep it had a blank line ended it, that is when
\* its metadata holds one of the markers tested at a blank line.
EndingIndependent ==
    [][(/\ script = "cicero"
        /\ pc = "parse"
        /\ pc' = "between"
        /\ current_sentence # <<>>) =>
          IF IsCicero(current_metadata)
          THEN sentences' = Append(sentences, current_sentence)
          ELSE sentences' = sentences]_vars

\* C20 as claimed: metadata is scoped to one sentence.  In analyze_entropy
\* and parse_conllu_cicero the metadata a sentence is classified by is the
\* '#' lines read since the last blank line, and nothing of an earlier
\* block.
MetadataScoped ==
    [][(/\ pc = "parse"
        /\ \/ current_sentence # <<>> /\ (current_sentence' = <<>> \/ pc' = "between")
           \/ current_lemmas # <<>> /\ (current_lemmas' = <<>> \/ pc' = "between"))
          => current_metadata = block_metadata]_vars

(***************************************************************************)
(* The filter loop on its own: every script that builds a lemma stream     *)
(* reads annotated tokens one by one and appends the admitted lemmas.      *)
(***************************************************************************)
\* most tokens read in one run of the filter loop
MaxTokens == 3

\* the scripts that build a lemma stream
FilterScripts == Scripts \cup {"entropy"}

\* the annotated tokens the filter loop reads
FilterTokens ==
    { [upos |-> "NOUN", lemma |-> "rex"],
      [upos |-> "NOUN", lemma |-> "Rex"],
      [upos |-> "VERB", lemma |-> "amat"],
      [upos |-> "ADP", lemma |-> "a"],
      [upos |-> "NOUN", lemma |-> "a"],
      [upos |-> "NOUN", lemma |-> "_"],
      [upos |-> "NOUN", lemma |-> ""],
      [upos |-> "NOUN", lemma |-> "Kal."],
      [upos |-> "NOUN", lemma |-> "C."],
      [upos |-> "PUNCT", lemma |-> ","],
      [upos |-> "PRON", lemma |-> "rex"],
      [upos |-> "NOUN", lemma |-> "Rex."] }

\* what each token contributes to the stream of each script
FilterContributions ==
    [s \in FilterScripts |->
        [tok \in FilterTokens |-> Admitted(s, tok.upos, tok.lemma)]]

\* the stream the filter loop of the script appends to
FilterStream == IF script = "entropy" THEN current_lemmas ELSE lemmas

InitFilter ==
    /\ script \in FilterScripts
    /\ pc = "filter"
    /\ IdleFilter
    /\ lemmas = <<>>
    /\ lemma_counts = <<>>
    /\ window_size = 0
    /\ processed_files = 0
    /\ pair_counts = <<>>
    /\ trigram_counts = <<>>
    /\ total_pairs = 0
    /\ i = 0
    /\ j = 0
    /\ total_lemmas = 0
    /\ min_occurrence = 0
    /\ pmi_scores = <<>>
    /\ k = 0
    /\ IdleProv
    /\ IdleAuth

\* the filter loop body on one token
FilterToken ==
    /\ pc = "filter"
    /\ Len(tokens_read) < MaxTokens
    /\ \E tok \in FilterTokens :
         LET a == FilterContributions[script][tok] IN
           /\ tokens_read' = Append(tokens_read, tok)
           /\ IF script = "entropy"
              THEN /\ current_lemmas' = current_lemmas \o a
                   /\ UNCHANGED <<lemmas, lemma_counts>>
              ELSE /\ lemmas' = lemmas \o a
                   /\ lemma_counts' =
                        IF script = "stanza" /\ a # <<>>
                        THEN Incr(lemma_counts, a[1])
                        ELSE lemma_counts
                   /\ UNCHANGED current_lemmas
    /\ UNCHANGED <<script, pc, window_size, processed_files, pair_counts,
                   trigram_counts, total_pairs, i, j, total_lemmas,
                   min_occurrence, pmi_scores, k>>
    /\ UNCHANGED <<current_metadata, current_sentence, sentences,
                   author_lemmas, block_metadata, lines_read, authVars,
                   origin, scope>>

SpecFilter == InitFilter /\ [][FilterToken]_vars

\* whether stream element e is the lemma of token tok, as annotated or
\* normalised
ComesFrom(e, tok) ==
    e \in {tok.lemma, Lower(tok.lemma), StripNonAlpha(Lower(tok.lemma))}

\* whether the elements of stream come from tokens of toks in their order
InTokenOrder(stream, toks) ==
    \E f \in [1..Len(stream) -> 1..Len(toks)] :
        /\ \A p \in 1..Len(stream) : ComesFrom(stream[p], toks[f[p]])
        /\ \A p, q \in 1..Len(stream) : p < q => f[p] < f[q]

\* C11 as claimed: the LemmaStream invariant.  In every script that builds
\* a lemma stream, after any sequence of tokens every element of the stream
\* has length at least 2 and is not the placeholder '_', and the elements
\* appear in the order of the tokens they come from.
LemmaStreamInvariant ==
    pc = "filter" =>
        /\ \A p \in 1..Len(FilterStream) :
             Len(FilterStream[p]) >= 2 /\ FilterStream[p] # "_"
        /\ InTokenOrder(FilterStream, tokens_read)

\* C12: the admission filter.  In analyze_treebank, analyze_cicero and
\* analyze_cicero_stanza a token is appended to the stream exactly when its
\* POS tag is not in STOP_POS, its lemma is not empty and its lower-cased
\* lemma is not in BLACKLIST, is not '_' and is longer than one character;
\* the element appended is the lower-cased lemma, and a rejected token
\* changes neither the stream nor the frequency table.
AdmissionFilter ==
    [][(/\ script \in {"treebank", "cicero", "stanza"}
        /\ Len(tokens_read') = Len(tokens_read) + 1) =>
          LET tok == tokens_read'[Len(tokens_read')]
              low == Lower(tok.lemma)
          IN IF /\ tok.upos \notin STOP_POS(script)
                /\ tok.lemma # ""
                /\ low \notin BLACKLIST(script)
                /\ low # "_"
                /\ Len(low) > 1
             THEN /\ lemmas' = Append(lemmas, low)
                  /\ script = "stanza" =>
                       /\ Get(lemma_counts', low) = Get(lemma_counts, low) + 1
                       /\ SumCounts(lemma_counts') = SumCounts(lemma_counts) + 1
             ELSE /\ lemmas' = lemmas
                  /\ lemma_counts' = lemma_counts]_vars

\* C12 witness: analyze_cicero_stanza has read a blacklisted abbreviation
\* in capitals, a one-letter lemma and a capitalised noun, and holds the
\* noun only
AdmissionFilterWitness ==
    /\ script = "stanza"
    /\ pc = "filter"
    /\ tokens_read = << [upos |-> "NOUN", lemma |-> "Kal."],
                        [upos |-> "NOUN", lemma |-> "a"],
                        [upos |-> "NOUN", lemma |-> "Rex"] >>
    /\ lemmas = <<"rex">>
    /\ Keys(lemma_counts) = {"rex"}

(***************************************************************************)
(* The scopes of the input: the filter loops run inside the loops over     *)
(* files and sentences.  The file and the sentence of every admitted lemma *)
(* are recorded, and the pair and trigram loops follow.                    *)
(***************************************************************************)
\* most lemmas admitted in one run with recorded scopes
MaxStream == 4

\* the annotated tokens of the files
ScopedTokens ==
    { [upos |-> "NOUN", lemma |-> "rex"],
      [upos |-> "VERB", lemma |-> "amat"],
      [upos |-> "PUNCT", lemma |-> ","] }

\* what each token contributes to the stream of each script
ScopedContributions ==
    [s \in Scripts |->
        [tok \in ScopedTokens |-> Admitted(s, tok.upos, tok.lemma)]]

\* the window sizes of the runs with recorded scopes
ScopedWindowSizes == {2, 3}

InitScoped ==
    /\ InitCount
    /\ window_size \in ScopedWindowSizes
    /\ IdleProv
    /\ IdleAuth
    /\ IdleFilter

\* the file the filter loop is in
CurrentFile == IF script = "stanza" THEN processed_files + 1 ELSE scope.file

\* the filter loop body on one token, inside the loops over files and
\* sentences
ReadScoped ==
    /\ pc = "read"
    /\ AdmittedSoFar < MaxStream
    /\ \E tok \in ScopedTokens :
         LET a == ScopedContributions[script][tok] IN
           /\ lemmas' = lemmas \o a
           /\ lemma_counts' =
                IF script = "stanza" /\ a # <<>>
                THEN Incr(lemma_counts, a[1])
                ELSE lemma_counts
           /\ origin' =
                IF a # <<>>
                THEN Append(origin, [file |-> CurrentFile, sent |-> scope.sent])
                ELSE origin
    /\ UNCHANGED <<script, pc, window_size, processed_files, pair_counts,
                   trigram_counts, total_pairs, i, j, total_lemmas,
                   min_occurrence, pmi_scores, k>>
    /\ UNCHANGED <<provVars, authVars, tokens_read, scope>>

\* a lemma of the current sentence has been admitted
InSentence ==
    origin # <<>> /\ origin[Len(origin)].sent = scope.sent

\* the loop over the sentences (paragraphs in analyze_cicero_stanza) goes
\* to the next sentence of the file; the stream is left as it is
SentenceBreak ==
    /\ pc = "read"
    /\ InSentence
    /\ scope' = [scope EXCEPT !.sent = @ + 1]
    /\ UNCHANGED <<countVars, provVars, authVars, tokens_read, origin>>

\* the loop over the files (chunks of lines in analyze_latin and
\* analyze_collocations) of a whole-corpus script goes to the next file;
\* the stream is left as it is
FileBreak ==
    /\ pc = "read"
    /\ script \in OrderPreserving
    /\ InSentence
    /\ scope.file < MaxFiles
    /\ scope' = [file |-> scope.file + 1, sent |-> scope.sent + 1]
    /\ UNCHANGED <<countVars, provVars, authVars, tokens_read, origin>>

NextScoped ==
    \/ ReadScoped
    \/ SentenceBreak
    \/ FileBreak
    \/ NextFile
    \/ EndFile
    \/ EndInput
    \/ PairStep
    \/ TrigramStep

SpecScoped == InitScoped /\ [][NextScoped]_vars

\* the file and sentence of the lemma at position p (from 1) of the
\* current stream
OriginOf(p) == origin[Len(origin) - Len(lemmas) + p]

\* the position pairs (from 1) of the current stream inside the window
\* whose lemmas differ and form key
InWindowUnder(key) ==
    {pq \in (1..Len(lemmas)) \X (1..Len(lemmas)) :
        /\ pq[1] < pq[2]
        /\ pq[2] - 1 < EndWindow(script, pq[1] - 1, Len(lemmas), window_size)
        /\ lemmas[pq[1]] # lemmas[pq[2]]
        /\ PairKey(script, lemmas[pq[1]], lemmas[pq[2]]) = key}

\* C17: boundary policy.  A whole-corpus script never resets its stream,
\* and counts every two distinct lemmas inside the window of the stream,
\* whatever their sentences and files; analyze_cicero_stanza starts every
\* file with an empty stream and counts a pair only from two lemmas of the
\* same file, and inside a file it counts every two distinct lemmas inside
\* the window, whatever their sentences.
BoundaryPolicy ==
    [][/\ (script \in OrderPreserving /\ pc = "read") =>
            SubSeq(lemmas', 1, Len(lemmas)) = lemmas
       /\ (script = "stanza" /\ pc = "files" /\ pc' = "read") => lemmas' = <<>>
       /\ pair_counts' # pair_counts =>
            /\ pc = "pairs"
            /\ script = "stanza" => OriginOf(i + 1).file = OriginOf(j + 1).file
       /\ PairsOfStream' =>
            \A key \in {<<lemmas[p], lemmas[q]>> : p, q \in 1..Len(lemmas)} :
               Get(pair_counts', key) = Cardinality(InWindowUnder(key))]_vars

\* C17 witness: a whole-corpus script has counted a pair whose lemmas lie
\* in different files and a pair whose lemmas lie in different sentences
\* of one file
BoundaryPolicyWitness ==
    /\ script \in OrderPreserving
    /\ pc = "score"
    /\ \E key \in Keys(pair_counts) :
         \E pq \in InWindowUnder(key) :
            OriginOf(pq[1]).file # OriginOf(pq[2]).file
    /\ \E key \in Keys(pair_counts) :
         \E pq \in InWindowUnder(key) :
            /\ OriginOf(pq[1]).file = OriginOf(pq[2]).file
            /\ OriginOf(pq[1]).sent # OriginOf(pq[2]).sent

====
